---- MODULE Spec2Model ----
(***************************************************************************)
(* Model of the SE weekly metrics service (src/app.py): the paginated      *)
(* search loop fetch_jira_data, the changelog scan                         *)
(* find_resolution_date_in_changelog, and the request handlers             *)
(* get_metrics (/metrics) and test_dates (/test-dates).                    *)
(*                                                                         *)
(* Datetimes are integers counted in ticks; a calendar date is the         *)
(* proleptic Gregorian ordinal of the day (Python's date.toordinal()).     *)
(* A duration in days is held as its number of ticks, so the thresholds    *)
(* 1.0, 3.0 and 7.0 days are 1, 3 and 7 times TicksPerDay.                 *)
(***************************************************************************)
EXTENDS Integers, Sequences, FiniteSets

VARIABLES
    \* ---- one call of fetch_jira_data, step by step (FetchSpec) ----
    matching,      \* upstream: the tickets matching the query, in upstream order
    max_results,   \* the max_results argument of the call
    all_issues,    \* local all_issues
    start_at,      \* local start_at
    requests,      \* history: the startAt of every search request issued
    responses,     \* history: the upstream's answer to every request
    fpc,           \* "loop" | "returned" | "raised"
    \* ---- one HTTP request to the service (Spec, ResolvedSpec) ----
    now,              \* the wall clock, datetime.now(), in ticks
    jira,             \* which upstream content the tracker holds
    pc,               \* position of the handler
    today,            \* get_metrics local today
    week_start,       \* get_metrics local week_start
    week_end,         \* get_metrics local week_end
    queries,          \* history: the (jql, max_results) of every fetch issued
    answers,          \* history: the tickets each resolved query returned
    resolved_tickets, \* get_metrics local resolved_tickets (merged issues)
    all_resolved_keys,\* get_metrics local all_resolved_keys
    metrics,          \* get_metrics local metrics
    team_i,           \* index into teams of the transfer loop
    raised,           \* history: the exception raised inside the try block
    response          \* the HTTP response produced

fetchVars == <<matching, max_results, all_issues, start_at, requests, responses, fpc>>
requestVars == <<now, jira, pc, today, week_start, week_end, queries, answers,
                 resolved_tickets, all_resolved_keys, metrics, team_i, raised, response>>
vars == <<fetchVars, requestVars>>

(***************************************************************************)
(* Bounds of the exploration.                                              *)
(***************************************************************************)
MaxSmallTotal == 5     \* small numbers of matching tickets: 0..MaxSmallTotal
MaxExcess == 2         \* totals and page sizes up to JiraLimit + MaxExcess
MaxSmallPage == 3      \* small page sizes: 1..MaxSmallPage
MaxCreated == 1        \* tickets created upstream during one fetch_jira_data call
FirstDay == 739152     \* the first "today" explored (date ordinal; a Monday)
MaxDayOffset == 6      \* "today" ranges over FirstDay..FirstDay + MaxDayOffset
MaxPage == 2           \* tickets in one answer to a resolved query ("merge")
MaxHistories == 2      \* change-history entries of a ticket ("derivation")
MaxClockDrift == 2     \* ticks the wall clock moves, either way, while a request is served
MaxDurations == 3      \* resolved tickets in one report ("durations")
TieGroup == 10         \* non-negative durations in one report ("ties")

(***************************************************************************)
(* Program constants.                                                      *)
(***************************************************************************)
JiraLimit == 100           \* min(max_results, 100)
DefaultMaxResults == 100   \* default of the max_results parameter
TransferMaxResults == 50   \* max_results=50 of the transfer fetch
HttpOk == 200              \* response.status_code != 200
HttpError == 500           \* the status of the except branch of get_metrics

Min(a, b) == IF a <= b THEN a ELSE b

(***************************************************************************)
(* The upstream search API.  An answer is a status and a JSON body; the    *)
(* body is a record that may lack "issues" or "total".  Status 0 stands    *)
(* for a connection failure (requests.get raises).                         *)
(***************************************************************************)
\* the page of `tickets` that starts at offset startAt and holds at most
\* maxResults tickets, with the total reported
JiraSearch(tickets, startAt, maxResults) ==
    [status |-> HttpOk,
     body |-> [issues |-> SubSeq(tickets, startAt + 1,
                                 Min(startAt + maxResults, Len(tickets))),
               total  |-> Len(tickets)]]

\* page sizes at which the server may cap a page below the maxResults asked
ServerPageCaps == {1, TransferMaxResults}

\* The answer of the given kind to one request:
\*   "page"       200, the page asked and the total
\*   "capped1", "capped2"  200, a page capped by the server, and the total
\*   "no_total"   200, the page asked, no "total" in the body
\*   "empty_body" 200, a body without "issues" and "total"
\*   "non200"     a status other than 200
\*   "raise"      a connection failure
JiraAnswer(kind, tickets, startAt, maxResults) ==
    CASE kind = "page" -> JiraSearch(tickets, startAt, maxResults)
      [] kind = "capped1" -> JiraSearch(tickets, startAt, Min(maxResults, 1))
      [] kind = "capped2" ->
            JiraSearch(tickets, startAt, Min(maxResults, TransferMaxResults))
      [] kind = "no_total" ->
            [status |-> HttpOk,
             body |-> [issues |-> JiraSearch(tickets, startAt, maxResults).body.issues]]
      [] kind = "empty_body" -> [status |-> HttpOk, body |-> [x \in {} |-> 0]]
      [] kind = "non200" -> [status |-> HttpError, body |-> [x \in {} |-> 0]]
      [] kind = "raise" -> [status |-> 0, body |-> [x \in {} |-> 0]]

AnswerKinds ==
    {"page", "capped1", "capped2", "no_total", "empty_body", "non200", "raise"}

\* what the upstream can do with one request
JiraAnswers(tickets, startAt, maxResults) ==
    { JiraAnswer(kind, tickets, startAt, maxResults) : kind \in AnswerKinds }

ConnectionFailed(resp) == resp.status = 0

\* data.get('issues', []) and data.get('total', 0)
IssuesOf(resp) == IF "issues" \in DOMAIN resp.body THEN resp.body.issues ELSE <<>>
TotalOf(resp) == IF "total" \in DOMAIN resp.body THEN resp.body.total ELSE 0

\* params['maxResults'] of a request
PageSizeParam(p) == Min(p, JiraLimit)

\* Faulty variant: a non-200 answer discards what was accumulated.
LoopBodyDropsOnError(st, p, resp) ==
    IF ConnectionFailed(resp) THEN [st EXCEPT !.pc = "raised"]
    ELSE IF resp.status # HttpOk THEN [st EXCEPT !.pc = "returned", !.all_issues = <<>>]
    ELSE LET acc == st.all_issues \o IssuesOf(resp) IN
         IF Len(IssuesOf(resp)) < p \/ st.start_at + p >= TotalOf(resp)
         THEN [st EXCEPT !.all_issues = acc, !.pc = "returned"]
         ELSE [st EXCEPT !.all_issues = acc, !.start_at = st.start_at + p]

\* Faulty variant: the loop stops on the short page only, never on the total.
LoopBodyIgnoresTotal(st, p, resp) ==
    IF ConnectionFailed(resp) THEN [st EXCEPT !.pc = "raised"]
    ELSE IF resp.status # HttpOk THEN [st EXCEPT !.pc = "returned"]
    ELSE LET acc == st.all_issues \o IssuesOf(resp) IN
         IF Len(IssuesOf(resp)) < p
         THEN [st EXCEPT !.all_issues = acc, !.pc = "returned"]
         ELSE [st EXCEPT !.all_issues = acc, !.start_at = st.start_at + p]

(***************************************************************************)
(* One iteration of the while loop of fetch_jira_data, after the answer    *)
(* resp to the request at st.start_at arrived.                             *)
(***************************************************************************)
LoopBody(st, p, resp) ==
    IF ConnectionFailed(resp) THEN [st EXCEPT !.pc = "raised"]
    ELSE IF resp.status # HttpOk THEN [st EXCEPT !.pc = "returned"]
    ELSE LET acc == st.all_issues \o IssuesOf(resp) IN
         IF Len(IssuesOf(resp)) < p \/ st.start_at + p >= TotalOf(resp)
         THEN [st EXCEPT !.all_issues = acc, !.pc = "returned"]
         ELSE [st EXCEPT !.all_issues = acc, !.start_at = st.start_at + p]

\* all_issues = [], start_at = 0
FetchStart == [all_issues |-> <<>>, start_at |-> 0, pc |-> "loop"]

(***************************************************************************)
(* fetch_jira_data run to its end against an upstream holding `tickets`.   *)
(* script gives the kind of the upstream's answer to the 1st, 2nd, ...     *)
(* request; past its end every answer is the page asked.  The result is    *)
(* the final loop state: pc "returned" with all_issues the return value,   *)
(* or pc "raised".                                                         *)
(***************************************************************************)
RECURSIVE FetchLoop(_, _, _, _)
FetchLoop(st, tickets, script, p) ==
    IF st.pc # "loop" THEN st
    ELSE LET kind == IF script = <<>> THEN "page" ELSE Head(script)
             resp == JiraAnswer(kind, tickets, st.start_at, PageSizeParam(p))
         IN FetchLoop(LoopBody(st, p, resp), tickets,
                      IF script = <<>> THEN <<>> ELSE Tail(script), p)

fetch_jira_data(tickets, script, p) == FetchLoop(FetchStart, tickets, script, p)

(***************************************************************************)
(* Dates and timestamps.                                                   *)
(***************************************************************************)
\* ticks per day: the unit in which (resolved_dt - created_dt) / 3600 / 24 is held
TicksPerDay == 2

\* timedelta(days=n)
Days(n) == n * TicksPerDay

\* dt.strftime('%Y-%m-%d'): the calendar date of a datetime, its time of day dropped
DateOf(dt) == dt \div TicksPerDay

\* dt.weekday(): Monday is 0, Sunday is 6
Weekday(dt) == (DateOf(dt) + 6) % 7

\* A timestamp field of a ticket: text "" when the field is missing or empty,
\* "None" for Python's None, "garbled" for a string fromisoformat rejects,
\* and for a string fromisoformat parses (t is the datetime it denotes)
\* "iso" when it carries a UTC offset ("...Z", an aware datetime) and
\* "naive" when it carries none (a naive datetime).
Absent == [text |-> "", t |-> 0]
NoneFound == [text |-> "None", t |-> 0]
Garbled == [text |-> "garbled", t |-> 0]
Iso(t) == [text |-> "iso", t |-> t]
Naive(t) == [text |-> "naive", t |-> t]

\* truth value of a timestamp field in `if created and resolved`
Truthy(ts) == ts.text \notin {"", "None"}
\* datetime.fromisoformat(ts.replace('Z', '+00:00')) does not raise
Parses(ts) == ts.text \in {"iso", "naive"}
\* resolved_dt - created_dt does not raise: an aware and a naive datetime
\* cannot be subtracted (TypeError)
Subtracts(a, b) == a.text = b.text

(***************************************************************************)
(* find_resolution_date_in_changelog                                       *)
(***************************************************************************)
TerminalStates == {"Done", "Resolved", "Closed", "Deployed/Done", "Complete"}

ItemResolves(item) == item.field = "status" /\ item.to \in TerminalStates

RECURSIVE AnyItemResolves(_)
AnyItemResolves(items) ==
    IF items = <<>> THEN FALSE
    ELSE IF ItemResolves(Head(items)) THEN TRUE
    ELSE AnyItemResolves(Tail(items))

RECURSIVE ScanHistories(_)
ScanHistories(histories) ==
    IF histories = <<>> THEN NoneFound
    ELSE IF AnyItemResolves(Head(histories).items) THEN Head(histories).created
    ELSE ScanHistories(Tail(histories))

\* Faulty variant: the scan keeps the last matching entry, not the first.
RECURSIVE ScanHistoriesLast(_)
ScanHistoriesLast(histories) ==
    IF histories = <<>> THEN NoneFound
    ELSE LET rest == ScanHistoriesLast(Tail(histories)) IN
         IF rest # NoneFound THEN rest
         ELSE IF AnyItemResolves(Head(histories).items) THEN Head(histories).created
         ELSE NoneFound

find_resolution_date_last(issue) == ScanHistoriesLast(issue.histories)

find_resolution_date_in_changelog(issue) == ScanHistories(issue.histories)

(***************************************************************************)
(* get_metrics: the resolution time of one merged resolved ticket, in      *)
(* ticks (resolution_days * TicksPerDay).                                  *)
(***************************************************************************)
\* the try block: both timestamps parsed and subtracted, 0 on any exception
DaysBetween(created, resolved) ==
    IF Parses(created) /\ Parses(resolved) /\ Subtracts(resolved, created)
    THEN resolved.t - created.t
    ELSE 0

resolution_days(issue) ==
    IF Truthy(issue.created) /\ Truthy(issue.resolved)
    THEN DaysBetween(issue.created, issue.resolved)
    ELSE IF Truthy(issue.created)
    THEN LET resolution_date == find_resolution_date_in_changelog(issue) IN
         IF Truthy(resolution_date)
         THEN DaysBetween(issue.created, resolution_date)
         ELSE 0
    ELSE 0

\* ticket_data of a resolved ticket
ResolvedTicketData(issue) ==
    [key |-> issue.key, status |-> issue.status, created |-> issue.created,
     resolved |-> issue.resolved, resolution_days |-> resolution_days(issue)]

(***************************************************************************)
(* get_metrics: the week window and the queries.                           *)
(***************************************************************************)
\* Faulty variant: the week starts on this week's Monday.
WeekStartThisWeek(t) == t - Days(Weekday(t))

\* this_monday = today - timedelta(days=today.weekday());
\* week_start = this_monday - timedelta(days=7)
WeekStart(t) ==
    LET this_monday == t - Days(Weekday(t)) IN this_monday - Days(7)

\* week_end = week_start + timedelta(days=6)
WeekEnd(ws) == ws + Days(6)

\* A JQL string: the project, the clause that selects on the window, and the
\* two dates formatted into it.
new_tickets_jql(ws, we) ==
    [project |-> "SE", clause |-> "created", from |-> DateOf(ws), to |-> DateOf(we)]
resolved_jql1(ws, we) ==
    [project |-> "SE", clause |-> "resolved", from |-> DateOf(ws), to |-> DateOf(we)]
resolved_jql2(ws, we) ==
    [project |-> "SE", clause |-> "status CHANGED TO Done DURING",
     from |-> DateOf(ws), to |-> DateOf(we)]

active_jql(ws, we) ==
    [project |-> "SE", clause |-> "updated, status NOT IN (Done, Closed, Resolved)",
     from |-> DateOf(ws), to |-> DateOf(we)]
transfer_jql(team, ws, we) ==
    [project |-> team, clause |-> "created, text ~ SE- OR summary ~ SE-",
     from |-> DateOf(ws), to |-> DateOf(we)]

teams == <<"EIM", "ENGGMNT", "AM", "MRKT">>

(***************************************************************************)
(* test_dates: the body of the /test-dates response.                       *)
(***************************************************************************)
test_dates(t) ==
    LET ws == t - Days(Weekday(t))
        we == ws + Days(6)
    IN [current_system_date |-> DateOf(t),
        calculated_week_start |-> DateOf(ws),
        calculated_week_end |-> DateOf(we),
        jql_current |-> [project |-> "SE", clause |-> "created",
                         from |-> DateOf(ws), to |-> DateOf(we)]]

(***************************************************************************)
(* get_metrics: new tickets.                                               *)
(***************************************************************************)
NoKey == "<no key>"   \* the record has no 'key': issue['key'] raises KeyError
HasKey(issue) == issue.key # NoKey

\* label.lower() and 'incident' in label.lower(), for the labels of the model
Lower(label) ==
    CASE label = "Support" -> "support"
      [] label = "Incident-P1" -> "incident-p1"
      [] OTHER -> label
ContainsIncident(lowered) == lowered = "incident-p1"

\* metrics['labels_count'][label] += 1
CountLabel(counter, label) ==
    [l \in DOMAIN counter \cup {label} |->
        IF l = label
        THEN (IF l \in DOMAIN counter THEN counter[l] + 1 ELSE 1)
        ELSE counter[l]]

RECURSIVE CountLabels(_, _)
CountLabels(counter, labels) ==
    IF labels = <<>> THEN counter
    ELSE CountLabels(
            IF Lower(Head(labels)) # "support"
            THEN CountLabel(counter, Head(labels)) ELSE counter,
            Tail(labels))

IsIncident(issue) ==
    \/ issue.priority \in {"Highest", "Critical"}
    \/ \E i \in DOMAIN issue.labels : ContainsIncident(Lower(issue.labels[i]))

NewTicketData(issue) ==
    [key |-> issue.key, status |-> issue.status, labels |-> issue.labels,
     priority |-> issue.priority]

\* The loop over new_tickets_response: m is the metrics record, with
\* m.error set to str(KeyError('key')) as soon as a record without key is read.
RECURSIVE ProcessNew(_, _)
ProcessNew(m, issues) ==
    IF issues = <<>> THEN m
    ELSE LET issue == Head(issues) IN
         IF ~HasKey(issue) THEN [m EXCEPT !.error = "'key'"]
         ELSE ProcessNew(
                [m EXCEPT !.labels_count = CountLabels(@, issue.labels),
                          !.new_tickets = Append(@, NewTicketData(issue)),
                          !.incident_tickets =
                              IF IsIncident(issue)
                              THEN Append(@, NewTicketData(issue)) ELSE @],
                Tail(issues))

(***************************************************************************)
(* get_metrics: the merge of the answers to the resolved queries.          *)
(***************************************************************************)
\* Faulty variant: the set of seen identifiers is not filled.
RECURSIVE MergeNoDedupe(_, _)
MergeNoDedupe(acc, issues) ==
    IF issues = <<>> THEN acc
    ELSE LET issue == Head(issues) IN
         IF ~HasKey(issue) THEN [acc EXCEPT !.error = "'key'"]
         ELSE MergeNoDedupe([acc EXCEPT !.tickets = Append(@, issue)], Tail(issues))

\* The loop over resolved_response: acc holds resolved_tickets and
\* all_resolved_keys, and acc.error once a record without key is read.
RECURSIVE MergeLoop(_, _)
MergeLoop(acc, issues) ==
    IF issues = <<>> THEN acc
    ELSE LET issue == Head(issues) IN
         IF ~HasKey(issue) THEN [acc EXCEPT !.error = "'key'"]
         ELSE IF issue.key \notin acc.keys
         THEN MergeLoop([acc EXCEPT !.keys = @ \cup {issue.key},
                                    !.tickets = Append(@, issue)],
                        Tail(issues))
         ELSE MergeLoop(acc, Tail(issues))

MergeResolved(acc, issues) == MergeLoop(acc, issues)

(***************************************************************************)
(* get_metrics: active tickets and transfer tickets.                       *)
(***************************************************************************)
\* (datetime.now() - updated_dt).days, 0 when updated is empty or unparsable
days_in_status(clock, updated) ==
    IF Truthy(updated) /\ Parses(updated)
    THEN (clock - updated.t) \div TicksPerDay
    ELSE 0

\* clocks[i] is what datetime.now() reads while the i-th issue is processed
RECURSIVE ProcessActive(_, _, _)
ProcessActive(m, clocks, issues) ==
    IF issues = <<>> THEN m
    ELSE LET issue == Head(issues) IN
         IF ~HasKey(issue) THEN [m EXCEPT !.error = "'key'"]
         ELSE ProcessActive(
                [m EXCEPT !.current_status_tickets = Append(@,
                    [key |-> issue.key, status |-> issue.status,
                     updated |-> issue.updated,
                     days_in_status |-> days_in_status(Head(clocks), issue.updated)])],
                Tail(clocks), Tail(issues))

\* A transfer candidate carries what the text search finds in its summary and
\* description: mentions_se is 'SE-' in summary or 'SE-' in str(description),
\* se_match is the first match of SE-\d+ ("" when there is none).
RECURSIVE ProcessTransfers(_, _, _)
ProcessTransfers(m, team, issues) ==
    IF issues = <<>> THEN m
    ELSE LET issue == Head(issues)
             original_se_key == IF issue.se_match # "" THEN issue.se_match ELSE "Unknown"
             existing_keys == {m.transfer_tickets[i].key : i \in DOMAIN m.transfer_tickets}
         IN IF ~issue.mentions_se THEN ProcessTransfers(m, team, Tail(issues))
            ELSE IF ~HasKey(issue) THEN [m EXCEPT !.error = "'key'"]
            ELSE IF issue.key \in existing_keys THEN ProcessTransfers(m, team, Tail(issues))
            ELSE ProcessTransfers(
                   [m EXCEPT !.transfer_tickets = Append(@,
                       [key |-> issue.key, team |-> team, status |-> issue.status,
                        original_se_key |-> original_se_key])],
                   team, Tail(issues))

(***************************************************************************)
(* get_metrics: CALCULATE METRICS.                                         *)
(***************************************************************************)
RECURSIVE Sum(_)
Sum(seq) == IF seq = <<>> THEN 0 ELSE Head(seq) + Sum(Tail(seq))

\* floor(log2(n / d)) for n > 0, d > 0
RECURSIVE FloorLog2(_, _)
FloorLog2(n, d) ==
    IF n < d THEN FloorLog2(2 * n, d) - 1
    ELSE IF n >= 2 * d THEN FloorLog2(n, 2 * d) + 1
    ELSE 0

\* 2^j mod 5 for j >= 0
Pow2Mod5(j) == <<1, 2, 4, 3>>[(j % 4) + 1]

\* The quotient m/20, m odd and no multiple of 5, lies halfway between two
\* tenths and is no binary fraction; the double nearest to it is
\* M * 2^(k-52) with k = floor(log2(m/20)) and M the integer nearest to
\* m * 2^(50-k) / 5.  TRUE when that double lies above m/20, that is when the
\* remainder of m * 2^(50-k) by 5 is 3 or 4.
DoubleAbove(m) ==
    LET k == FloorLog2(m, 20)
        r == ((m % 5) * Pow2Mod5(50 - k)) % 5
    IN r >= 3

\* round(num / den, 1) for num >= 0, den > 0, in tenths.  The division gives
\* the double nearest to num/den, and round() rounds that double correctly:
\* away from a tie the result is the nearest tenth; a tie that is a binary
\* fraction (an odd multiple of 1/4) goes to the even tenth; on any other tie
\* the double is not the tie itself and the result is the tenth on its side.
RoundTenths(num, den) ==
    LET a == (10 * num) \div den
        r == (10 * num) % den
        m == 2 * a + 1
    IN IF 2 * r < den THEN a
       ELSE IF 2 * r > den THEN a + 1
       ELSE IF m % 5 = 0 THEN (IF a % 2 = 0 THEN a ELSE a + 1)
       ELSE IF DoubleAbove(m) THEN a + 1 ELSE a

\* round(num / den, 1) for den > 0, in tenths
round_1(num, den) ==
    IF num < 0 THEN -RoundTenths(-num, den) ELSE RoundTenths(num, den)

\* [t['resolution_days'] for t in resolved_tickets if t['resolution_days'] >= 0]
resolution_times(tickets) ==
    SelectSeq([i \in DOMAIN tickets |-> tickets[i].resolution_days],
              LAMBDA d : d >= 0)

\* Faulty variant: the mean is taken over all resolved tickets.
avg_resolution_over_all(tickets) ==
    IF resolution_times(tickets) = <<>> THEN 0
    ELSE round_1(Sum(resolution_times(tickets)), TicksPerDay * Len(tickets))

\* round(sum(resolution_times) / len(resolution_times), 1), in tenths of a day
avg_resolution(tickets) ==
    LET times == resolution_times(tickets) IN
    IF times = <<>> THEN 0
    ELSE round_1(Sum(times), TicksPerDay * Len(times))

\* Faulty variant: the upper bucket bounds are exclusive.
bucket_of_exclusive(days) ==
    IF days < 1 * TicksPerDay THEN "under_24h"
    ELSE IF days < 3 * TicksPerDay THEN "1_3_days"
    ELSE IF days < 7 * TicksPerDay THEN "3_7_days"
    ELSE "over_7_days"

\* the if/elif chain over days of the bucket loop
bucket_of(days) ==
    IF days < 1 * TicksPerDay THEN "under_24h"
    ELSE IF days <= 3 * TicksPerDay THEN "1_3_days"
    ELSE IF days <= 7 * TicksPerDay THEN "3_7_days"
    ELSE "over_7_days"

resolution_buckets(tickets) ==
    LET times == resolution_times(tickets) IN
    [b \in {"under_24h", "1_3_days", "3_7_days", "over_7_days"} |->
        Cardinality({i \in DOMAIN times : bucket_of(times[i]) = b})]

\* status_analysis: per status the count, the total and the rounded mean (in
\* tenths of a day) of days_in_status
status_analysis(tickets) ==
    LET statuses == {tickets[i].status : i \in DOMAIN tickets}
        of(st) == SelectSeq(tickets, LAMBDA t : t.status = st)
        total(st) == Sum([i \in DOMAIN of(st) |-> of(st)[i].days_in_status])
    IN [st \in statuses |->
          [count |-> Len(of(st)), total_days |-> total(st),
           avg_days |-> round_1(total(st), Len(of(st)))]]

\* team_transfers
team_transfers(tickets) ==
    [tm \in {tickets[i].team : i \in DOMAIN tickets} |->
        Cardinality({i \in DOMAIN tickets : tickets[i].team = tm})]

\* the body of the 200 response; clock is what datetime.now() reads for
\* generatedAt
Report(m, ws, we, clock) ==
    [success |-> TRUE,
     execution_method |-> "Render_Flask_API",
     newTicketsCount |-> Len(m.new_tickets),
     resolvedTicketsCount |-> Len(m.resolved_tickets),
     averageResolutionDays |-> avg_resolution(m.resolved_tickets),
     incidentsCount |-> Len(m.incident_tickets),
     transfersCount |-> Len(m.transfer_tickets),
     speedBuckets |->
        [lessThan24h |-> resolution_buckets(m.resolved_tickets)["under_24h"],
         oneToThreeDays |-> resolution_buckets(m.resolved_tickets)["1_3_days"],
         threeToSevenDays |-> resolution_buckets(m.resolved_tickets)["3_7_days"],
         moreThanSevenDays |-> resolution_buckets(m.resolved_tickets)["over_7_days"]],
     weekRange |-> [from |-> DateOf(ws), to |-> DateOf(we)],
     statusAnalysis |-> status_analysis(m.current_status_tickets),
     transfers |->
        [total |-> Len(m.transfer_tickets),
         byTeam |-> team_transfers(m.transfer_tickets),
         details |-> SubSeq(m.transfer_tickets, 1, Min(5, Len(m.transfer_tickets)))],
     generatedAt |-> clock]

\* Faulty variant: the except branch answers with the default status.
ErrorResponseOk(message) ==
    [endpoint |-> "/metrics", status |-> HttpOk,
     body |-> [success |-> FALSE, error |-> message,
               execution_method |-> "Render_Flask_API"]]

\* the except branch: jsonify({"success": False, "error": str(e), ...}), 500
ErrorResponse(message) ==
    [endpoint |-> "/metrics", status |-> HttpError,
     body |-> [success |-> FALSE, error |-> message,
               execution_method |-> "Render_Flask_API"]]

\* return jsonify({...}) of the try block
OkResponse(m, ws, we, clock) ==
    [endpoint |-> "/metrics", status |-> HttpOk, body |-> Report(m, ws, we, clock)]

(***************************************************************************)
(* The upstream contents explored.  jira names what the tracker holds:     *)
(*   "small"      a few tickets of every kind, any "today"                 *)
(*   "merge"      overlapping answers to the two resolved queries          *)
(*   "derivation" one resolved ticket, any shape of its timestamps and     *)
(*                change history                                           *)
(*   "durations"  up to MaxDurations resolved tickets of any duration      *)
(*   "ties"       TieGroup resolved tickets whose mean duration may lie    *)
(*                halfway between two tenths of a day                      *)
(***************************************************************************)
BoundedSeq(S, n) == UNION {[1..k -> S] : k \in 0..n}

CreatedAt == Days(FirstDay - 10)   \* the creation time of the tickets

NewIssue(key, priority, labels) ==
    [key |-> key, status |-> "Open", labels |-> labels, priority |-> priority]
ResolvedIssue(key, created, resolved, histories) ==
    [key |-> key, status |-> "Done", created |-> created, resolved |-> resolved,
     histories |-> histories]
History(created, items) == [created |-> created, items |-> items]
Item(field, to) == [field |-> field, to |-> to]

NewAnswers(j) ==
    IF j = "small"
    THEN { <<>>,
           << NewIssue("SE-10", "Critical", <<"Support", "billing">>),
              NewIssue("SE-11", "", <<"Incident-P1", "billing">>),
              NewIssue("SE-12", "Low", <<"support">>) >>,
           << NewIssue(NoKey, "Low", <<>>) >> }
    ELSE { <<>> }

ActiveAnswers(j) ==
    IF j = "small"
    THEN { <<>>,
           << [key |-> "SE-7", status |-> "In Progress", updated |-> Iso(CreatedAt + 3)],
              [key |-> "SE-8", status |-> "In Progress", updated |-> Garbled],
              [key |-> "SE-9", status |-> "Blocked", updated |-> Absent] >> }
    ELSE { <<>> }

TransferAnswers(j) ==
    IF j = "small"
    THEN { <<>>,
           << [key |-> "EIM-1", status |-> "Open", mentions_se |-> TRUE, se_match |-> "SE-42"],
              [key |-> "EIM-2", status |-> "Open", mentions_se |-> FALSE, se_match |-> ""] >> }
    ELSE { <<>> }

\* "merge": two records of the same identifier and one of another
MergeTickets ==
    { ResolvedIssue("SE-1", Iso(CreatedAt), Iso(CreatedAt + Days(2)), <<>>),
      ResolvedIssue("SE-1", Iso(CreatedAt), Absent,
                    << History(Iso(CreatedAt + Days(4)), << Item("status", "Done") >>) >>),
      ResolvedIssue("SE-2", Iso(CreatedAt), Iso(CreatedAt + Days(8)), <<>>) }

\* "derivation": the change-history entries and the tickets built from them
ItemLists ==
    { <<>>,
      << Item("status", "In Progress") >>,
      << Item("status", "Done") >>,
      << Item("resolution", "Done") >>,
      << Item("assignee", "someone"), Item("status", "Closed") >> }
HistoryEntries ==
    { History(c, items) :
        c \in {Iso(CreatedAt + 3), Iso(CreatedAt + 9), Absent}, items \in ItemLists }
DerivationTickets ==
    { ResolvedIssue("SE-1", c, Absent, h) :
        c \in {Iso(CreatedAt), Absent, Garbled},
        h \in BoundedSeq(HistoryEntries, MaxHistories) }
    \cup
    { ResolvedIssue("SE-1", c, r, h) :
        c \in {Iso(CreatedAt), Naive(CreatedAt), Absent, Garbled},
        r \in {Iso(CreatedAt + 5), Naive(CreatedAt + 5), Garbled},
        h \in {<<>>, << History(Iso(CreatedAt + 3), << Item("status", "Done") >>) >>} }
    \cup
    { ResolvedIssue("SE-1", c, Absent, << History(hc, << Item("status", to) >>) >>) :
        c \in {Iso(CreatedAt), Naive(CreatedAt)},
        hc \in {Iso(CreatedAt + 3), Naive(CreatedAt + 3), Garbled},
        to \in TerminalStates \cup {"In Review", "done"} }

\* "durations": tickets SE-1..SE-n resolved d[1]..d[n] ticks after their creation
KeyNames ==
    <<"SE-1", "SE-2", "SE-3", "SE-4", "SE-5", "SE-6", "SE-7", "SE-8", "SE-9", "SE-10",
      "SE-11", "SE-12", "SE-13">>
DurationValues ==
    { -1, 0, 1, TicksPerDay, TicksPerDay + 1, 3 * TicksPerDay, 3 * TicksPerDay + 1,
      7 * TicksPerDay, 7 * TicksPerDay + 1 }
DurationAnswers ==
    { [i \in DOMAIN d |->
          ResolvedIssue(KeyNames[i], Iso(CreatedAt), Iso(CreatedAt + d[i]), <<>>)] :
        d \in BoundedSeq(DurationValues, MaxDurations) }

\* "ties": TieGroup tickets, the first resolved d ticks after its creation and
\* the others at their creation, and one ticket resolved before its creation
TieAnswers ==
    { [i \in 1..(TieGroup + 1) |->
          ResolvedIssue(KeyNames[i], Iso(CreatedAt),
                        Iso(CreatedAt + (IF i = 1 THEN d
                                         ELSE IF i <= TieGroup THEN 0 ELSE -1)),
                        <<>>)] :
        d \in DurationValues }

\* what the upstream may answer to the n-th resolved query
ResolvedAnswers(j, n) ==
    CASE j = "small" ->
           IF n = 1
           THEN { <<>>,
                  << ResolvedIssue("SE-1", Iso(CreatedAt), Iso(CreatedAt + Days(2)), <<>>) >>,
                  << ResolvedIssue(NoKey, Iso(CreatedAt), Absent, <<>>) >> }
           ELSE { <<>>,
                  << ResolvedIssue("SE-1", Iso(CreatedAt), Absent, <<>>) >> }
      [] j = "merge" -> BoundedSeq(MergeTickets, MaxPage)
      [] j = "derivation" -> IF n = 1 THEN { <<t>> : t \in DerivationTickets } ELSE { <<>> }
      [] j = "durations" -> IF n = 1 THEN DurationAnswers ELSE { <<>> }
      [] j = "ties" -> IF n = 1 THEN TieAnswers ELSE { <<>> }

\* the kind of the upstream's answer to the first request of a fetch
Scripts == { <<kind>> : kind \in AnswerKinds }

(***************************************************************************)
(* State of the handlers.                                                  *)
(***************************************************************************)
NoResponse == [endpoint |-> "", status |-> 0, body |-> [success |-> FALSE]]
NotRaised == [step |-> "", error |-> ""]

\* metrics = {...} of get_metrics; error is the exception pending in a loop
\* over tickets ("" when there is none)
EmptyMetrics ==
    [new_tickets |-> <<>>, resolved_tickets |-> <<>>, current_status_tickets |-> <<>>,
     transfer_tickets |-> <<>>, incident_tickets |-> <<>>,
     labels_count |-> [l \in {} |-> 0], error |-> ""]

FetchIdle ==
    /\ matching = <<>>
    /\ max_results = DefaultMaxResults
    /\ all_issues = <<>>
    /\ start_at = 0
    /\ requests = <<>>
    /\ responses = <<>>
    /\ fpc = "idle"

RequestIdle ==
    /\ pc = "idle"
    /\ today = 0
    /\ week_start = 0
    /\ week_end = 0
    /\ queries = <<>>
    /\ answers = <<>>
    /\ resolved_tickets = <<>>
    /\ all_resolved_keys = {}
    /\ metrics = EmptyMetrics
    /\ team_i = 1
    /\ raised = NotRaised
    /\ response = NoResponse

Nows ==
    { Days(d) + h : d \in FirstDay..(FirstDay + MaxDayOffset), h \in 0..(TicksPerDay - 1) }

\* the service waits for a request at some time of a week; the tracker holds
\* the "small" content
Init ==
    /\ now \in Nows
    /\ jira = "small"
    /\ RequestIdle
    /\ FetchIdle

\* the service waits for a request; the tracker holds one of the contents that
\* exercise the resolved tickets
InitResolved ==
    /\ now = Days(FirstDay) + 1
    /\ jira \in {"merge", "derivation", "durations", "ties"}
    /\ RequestIdle
    /\ FetchIdle

(***************************************************************************)
(* GET /metrics, one step per upstream fetch.                              *)
(***************************************************************************)
\* the except branch is entered with exception `message` raised at `step`
Raise(step, message) ==
    /\ raised' = [step |-> step, error |-> message]
    /\ response' = ErrorResponse(message)
    /\ pc' = "done"

\* datetime.now() is the local wall clock, which a clock adjustment or the end
\* of daylight saving time sets back: n successive readings taken while a
\* request is served, each within MaxClockDrift ticks of `today`, in any order.
ClockReadings(n) ==
    [1..n -> (today - MaxClockDrift)..(today + MaxClockDrift)]

\* the clock after the readings c
ClockAfter(c) == IF c = <<>> THEN now ELSE c[Len(c)]

\* metrics = {...}; today = datetime.now(); week_start, week_end
StartMetrics ==
    /\ pc = "idle"
    /\ today' = now
    /\ week_start' = WeekStart(now)
    /\ week_end' = WeekEnd(WeekStart(now))
    /\ metrics' = EmptyMetrics
    /\ pc' = "new"
    /\ UNCHANGED <<now, jira, queries, answers, resolved_tickets, all_resolved_keys,
                   team_i, raised, response>>
    /\ UNCHANGED fetchVars

\* FETCH NEW TICKETS THIS WEEK
FetchNewTickets ==
    /\ pc = "new"
    /\ \E tickets \in NewAnswers(jira), script \in Scripts :
         LET r == fetch_jira_data(tickets, script, DefaultMaxResults)
             m == IF r.pc = "raised" THEN [metrics EXCEPT !.error = "ConnectionError"]
                  ELSE ProcessNew(metrics, r.all_issues)
         IN /\ queries' = Append(queries,
                 [jql |-> new_tickets_jql(week_start, week_end),
                  max_results |-> DefaultMaxResults])
            /\ IF m.error # ""
               THEN Raise("new", m.error) /\ UNCHANGED metrics
               ELSE metrics' = m /\ pc' = "resolved1" /\ UNCHANGED <<raised, response>>
    /\ UNCHANGED <<now, jira, today, week_start, week_end, answers, resolved_tickets,
                   all_resolved_keys, team_i>>
    /\ UNCHANGED fetchVars

\* FETCH RESOLVED TICKETS THIS WEEK: one iteration of `for jql in [...]`
FetchResolved ==
    /\ pc \in {"resolved1", "resolved2"}
    /\ LET n == IF pc = "resolved1" THEN 1 ELSE 2
           jql == IF n = 1 THEN resolved_jql1(week_start, week_end)
                  ELSE resolved_jql2(week_start, week_end)
       IN \E tickets \in ResolvedAnswers(jira, n), script \in Scripts :
            LET r == fetch_jira_data(tickets, script, DefaultMaxResults)
                start == [tickets |-> resolved_tickets, keys |-> all_resolved_keys,
                          error |-> ""]
                acc == IF r.pc = "raised" THEN [start EXCEPT !.error = "ConnectionError"]
                       ELSE MergeResolved(start, r.all_issues)
            IN /\ queries' = Append(queries,
                    [jql |-> jql, max_results |-> DefaultMaxResults])
               /\ IF acc.error # ""
                  THEN /\ Raise("resolved", acc.error)
                       /\ UNCHANGED <<answers, resolved_tickets, all_resolved_keys>>
                  ELSE /\ answers' = Append(answers, r.all_issues)
                       /\ resolved_tickets' = acc.tickets
                       /\ all_resolved_keys' = acc.keys
                       /\ pc' = IF n = 1 THEN "resolved2" ELSE "process"
                       /\ UNCHANGED <<raised, response>>
    /\ UNCHANGED <<now, jira, today, week_start, week_end, metrics, team_i>>
    /\ UNCHANGED fetchVars

\* Process unique resolved tickets
ProcessResolved ==
    /\ pc = "process"
    /\ metrics' = [metrics EXCEPT !.resolved_tickets =
            [i \in DOMAIN resolved_tickets |-> ResolvedTicketData(resolved_tickets[i])]]
    /\ pc' = "active"
    /\ UNCHANGED <<now, jira, today, week_start, week_end, queries, answers,
                   resolved_tickets, all_resolved_keys, team_i, raised, response>>
    /\ UNCHANGED fetchVars

\* FETCH ACTIVE TICKETS FOR STATUS ANALYSIS
FetchActive ==
    /\ pc = "active"
    /\ \E tickets \in ActiveAnswers(jira), script \in Scripts :
         LET r == fetch_jira_data(tickets, script, DefaultMaxResults) IN
         \E clocks \in ClockReadings(Len(r.all_issues)) :
         LET m == IF r.pc = "raised" THEN [metrics EXCEPT !.error = "ConnectionError"]
                  ELSE ProcessActive(metrics, clocks, r.all_issues)
         IN /\ queries' = Append(queries,
                 [jql |-> active_jql(week_start, week_end),
                  max_results |-> DefaultMaxResults])
            /\ now' = ClockAfter(clocks)
            /\ IF m.error # ""
               THEN Raise("active", m.error) /\ UNCHANGED <<metrics, team_i>>
               ELSE /\ metrics' = m
                    /\ team_i' = 1
                    /\ pc' = "transfer"
                    /\ UNCHANGED <<raised, response>>
    /\ UNCHANGED <<jira, today, week_start, week_end, answers, resolved_tickets,
                   all_resolved_keys>>
    /\ UNCHANGED fetchVars

\* FETCH TRANSFER TICKETS THIS WEEK: one iteration of `for team in teams`
FetchTransfers ==
    /\ pc = "transfer"
    /\ \E tickets \in TransferAnswers(jira), script \in Scripts :
         LET r == fetch_jira_data(tickets, script, TransferMaxResults)
             m == IF r.pc = "raised" THEN [metrics EXCEPT !.error = "ConnectionError"]
                  ELSE ProcessTransfers(metrics, teams[team_i], r.all_issues)
         IN /\ queries' = Append(queries,
                 [jql |-> transfer_jql(teams[team_i], week_start, week_end),
                  max_results |-> TransferMaxResults])
            /\ IF m.error # ""
               THEN Raise("transfer", m.error) /\ UNCHANGED <<metrics, team_i>>
               ELSE /\ metrics' = m
                    /\ IF team_i < Len(teams)
                       THEN team_i' = team_i + 1 /\ pc' = "transfer"
                       ELSE team_i' = team_i /\ pc' = "calc"
                    /\ UNCHANGED <<raised, response>>
    /\ UNCHANGED <<now, jira, today, week_start, week_end, answers, resolved_tickets,
                   all_resolved_keys>>
    /\ UNCHANGED fetchVars

\* CALCULATE METRICS and build the response
Calculate ==
    /\ pc = "calc"
    /\ \E clocks \in ClockReadings(1) :
         /\ response' = OkResponse(metrics, week_start, week_end, clocks[1])
         /\ now' = ClockAfter(clocks)
    /\ pc' = "done"
    /\ UNCHANGED <<jira, today, week_start, week_end, queries, answers,
                   resolved_tickets, all_resolved_keys, metrics, team_i, raised>>
    /\ UNCHANGED fetchVars

(***************************************************************************)
(* GET /test-dates                                                         *)
(***************************************************************************)
TestDates ==
    /\ pc = "idle"
    /\ response' = [endpoint |-> "/test-dates", status |-> HttpOk, body |-> test_dates(now)]
    /\ pc' = "done"
    /\ UNCHANGED <<now, jira, today, week_start, week_end, queries, answers,
                   resolved_tickets, all_resolved_keys, metrics, team_i, raised>>
    /\ UNCHANGED fetchVars

Next ==
    \/ StartMetrics
    \/ FetchNewTickets
    \/ FetchResolved
    \/ ProcessResolved
    \/ FetchActive
    \/ FetchTransfers
    \/ Calculate
    \/ TestDates

Spec == Init /\ [][Next]_vars

ResolvedSpec == InitResolved /\ [][Next]_vars

(***************************************************************************)
(* One call of fetch_jira_data, one step per search request.               *)
(***************************************************************************)
\* tickets 1..n, in upstream order
Tickets(n) == [i \in 1..n |-> i]

\* the tickets created upstream since the call began carry negative numbers
Created == Cardinality({i \in DOMAIN matching : matching[i] < 0})

Totals == (0..MaxSmallTotal) \cup ((JiraLimit - 1)..(JiraLimit + MaxExcess))
PageSizes ==
    (1..MaxSmallPage) \cup {TransferMaxResults, DefaultMaxResults}
    \cup ((JiraLimit + 1)..(JiraLimit + MaxExcess))

InitFetch ==
    /\ matching \in {Tickets(n) : n \in Totals}
    /\ max_results \in PageSizes
    /\ all_issues = FetchStart.all_issues
    /\ start_at = FetchStart.start_at
    /\ fpc = FetchStart.pc
    /\ requests = <<>>
    /\ responses = <<>>
    /\ now = Days(FirstDay)
    /\ jira = "small"
    /\ RequestIdle

\* requests.get(...) at start_at and the rest of the loop body
FetchRequest ==
    /\ fpc = "loop"
    /\ \E resp \in JiraAnswers(matching, start_at, PageSizeParam(max_results)) :
         LET st == LoopBody([all_issues |-> all_issues, start_at |-> start_at, pc |-> fpc],
                            max_results, resp)
         IN /\ all_issues' = st.all_issues
            /\ start_at' = st.start_at
            /\ fpc' = st.pc
            /\ requests' = Append(requests, start_at)
            /\ responses' = Append(responses, resp)
    /\ UNCHANGED <<matching, max_results>>
    /\ UNCHANGED requestVars

\* between two requests of the call a ticket matching the query is created
\* upstream; it comes first in upstream order
TicketCreated ==
    /\ fpc = "loop"
    /\ requests # <<>>
    /\ Created < MaxCreated
    /\ matching' = <<-(Created + 1)>> \o matching
    /\ UNCHANGED <<max_results, all_issues, start_at, requests, responses, fpc>>
    /\ UNCHANGED requestVars

NextFetch ==
    \/ FetchRequest
    \/ TicketCreated

FetchSpec == InitFetch /\ [][NextFetch]_vars

(***************************************************************************)
(* Properties of fetch_jira_data (FetchSpec).                              *)
(***************************************************************************)
Max(a, b) == IF a >= b THEN a ELSE b
CeilDiv(a, b) == (a + b - 1) \div b

RECURSIVE ConcatPages(_)
ConcatPages(pages) ==
    IF pages = <<>> THEN <<>> ELSE IssuesOf(Head(pages)) \o ConcatPages(Tail(pages))

AllAnswersOk == \A i \in DOMAIN responses : responses[i].status = HttpOk

\* every answer is a 200 carrying the page asked and the total, and the
\* upstream's tickets did not change during the call
UpstreamHonest ==
    /\ Created = 0
    /\ \A i \in DOMAIN responses :
         responses[i] = JiraSearch(matching, requests[i], PageSizeParam(max_results))

\* the largest total the upstream reported during the call
RECURSIVE MaxTotal(_)
MaxTotal(pages) ==
    IF pages = <<>> THEN 0 ELSE Max(TotalOf(Head(pages)), MaxTotal(Tail(pages)))

\* C1: when every search request is answered with 200 by the page asked and
\* the total, fetch_jira_data returns the complete list of matching tickets,
\* each once and in upstream order, whatever max_results and the number of
\* matching tickets are.
C1_ReturnsAllMatching ==
    (fpc = "returned" /\ UpstreamHonest) => all_issues = matching

\* C2: a non-200 answer to the k-th request ends the call: it is the last
\* request, nothing is raised, and the value returned is the concatenation of
\* the pages of requests 1..k-1, empty only when k = 1.
C2_StopsOnNon200 ==
    \A k \in DOMAIN responses :
        (responses[k].status # HttpOk /\ ~ConnectionFailed(responses[k])) =>
            /\ k = Len(responses)
            /\ Len(requests) = k
            /\ fpc = "returned"
            /\ all_issues = ConcatPages(SubSeq(responses, 1, k - 1))
            /\ (all_issues = <<>>) <=> (k = 1)

C2_Witness ==
    /\ fpc = "returned"
    /\ Len(responses) = 3
    /\ responses[3].status = HttpError
    /\ Len(all_issues) = 2 * max_results
    /\ Len(matching) > Len(all_issues)

\* C10: the offsets requested are 0, p, 2p, ... and the loop has ended by the
\* time max(1, ceil(total / p)) requests were issued, total being the largest
\* total the upstream reported.
C10_BoundedPagination ==
    LET cap == Max(1, CeilDiv(MaxTotal(responses), max_results)) IN
    /\ \A i \in DOMAIN requests : requests[i] = (i - 1) * max_results
    /\ Len(requests) <= cap
    /\ fpc = "loop" => Len(requests) < cap
    /\ fpc # "loop" => Len(requests) >= 1

C10_Witness ==
    /\ fpc = "returned"
    /\ AllAnswersOk
    /\ Len(requests) = 3
    /\ MaxTotal(responses) = 3 * max_results

(***************************************************************************)
(* Properties of /metrics and /test-dates (Spec, ResolvedSpec).            *)
(***************************************************************************)
MetricsOk == pc = "done" /\ response.endpoint = "/metrics" /\ response.status = HttpOk

\* the first position of identifier k in a list of tickets
FirstIndex(all, k) ==
    CHOOSE j \in DOMAIN all : all[j].key = k /\ \A h \in 1..(j - 1) : all[h].key # k

\* C3: once both resolved queries are answered, the merged list holds every
\* identifier of either answer exactly once, as the record of its first
\* occurrence and in the order of the first occurrences, and
\* resolvedTicketsCount is the number of distinct identifiers.
C3_MergedOnce ==
    Len(answers) = 2 =>
        LET all == answers[1] \o answers[2]
            keys == {all[i].key : i \in DOMAIN all}
        IN /\ Len(resolved_tickets) = Cardinality(keys)
           /\ \A i \in DOMAIN resolved_tickets :
                /\ resolved_tickets[i].key \in keys
                /\ resolved_tickets[i] = all[FirstIndex(all, resolved_tickets[i].key)]
           /\ \A i, j \in DOMAIN resolved_tickets :
                i < j => FirstIndex(all, resolved_tickets[i].key)
                            < FirstIndex(all, resolved_tickets[j].key)
           /\ MetricsOk => response.body.resolvedTicketsCount = Cardinality(keys)

C3_Witness ==
    /\ MetricsOk
    /\ Len(answers) = 2
    /\ Len(answers[1]) = 2
    /\ Len(answers[2]) = 2
    /\ answers[1][1].key = answers[2][1].key
    /\ answers[1][1] # answers[2][1]
    /\ answers[1][2].key # answers[1][1].key
    /\ response.body.resolvedTicketsCount = 2

\* the durations of the resolved tickets of the report, in ticks
Durations == [i \in DOMAIN metrics.resolved_tickets |->
                 metrics.resolved_tickets[i].resolution_days]
CountWhere(P(_)) == Cardinality({i \in DOMAIN Durations : P(Durations[i])})

\* C4 as stated: every resolved ticket's duration is counted in exactly one
\* bucket (below 1 day; 1 to 3 days; above 3 up to 7 days; above 7 days), so
\* the four counts sum to the number of resolved-ticket durations.
C4_EveryDurationBucketed ==
    MetricsOk =>
        LET b == response.body.speedBuckets IN
        /\ b.lessThan24h = CountWhere(LAMBDA d : d < TicksPerDay)
        /\ b.oneToThreeDays = CountWhere(LAMBDA d : TicksPerDay <= d /\ d <= 3 * TicksPerDay)
        /\ b.threeToSevenDays =
              CountWhere(LAMBDA d : 3 * TicksPerDay < d /\ d <= 7 * TicksPerDay)
        /\ b.moreThanSevenDays = CountWhere(LAMBDA d : d > 7 * TicksPerDay)
        /\ b.lessThan24h + b.oneToThreeDays + b.threeToSevenDays + b.moreThanSevenDays
              = Len(Durations)

\* C4, amended: every non-negative duration is counted in exactly one bucket,
\* with the same boundaries; a negative duration is counted in none, so the
\* four counts sum to the number of non-negative durations.
C4_NonNegativeDurationsBucketed ==
    MetricsOk =>
        LET b == response.body.speedBuckets IN
        /\ b.lessThan24h = CountWhere(LAMBDA d : 0 <= d /\ d < TicksPerDay)
        /\ b.oneToThreeDays = CountWhere(LAMBDA d : TicksPerDay <= d /\ d <= 3 * TicksPerDay)
        /\ b.threeToSevenDays =
              CountWhere(LAMBDA d : 3 * TicksPerDay < d /\ d <= 7 * TicksPerDay)
        /\ b.moreThanSevenDays = CountWhere(LAMBDA d : d > 7 * TicksPerDay)
        /\ b.lessThan24h + b.oneToThreeDays + b.threeToSevenDays + b.moreThanSevenDays
              = CountWhere(LAMBDA d : d >= 0)

C4_Witness ==
    /\ MetricsOk
    /\ Len(Durations) = 3
    /\ Durations[1] < 0
    /\ Durations[2] = 3 * TicksPerDay
    /\ Durations[3] = 7 * TicksPerDay
    /\ response.body.speedBuckets.lessThan24h = 0
    /\ response.body.speedBuckets.oneToThreeDays = 1
    /\ response.body.speedBuckets.threeToSevenDays = 1

\* the resolution timestamp of a ticket as the specification derives it
C5_HistoryResolves(h) ==
    \E j \in DOMAIN h.items :
        /\ h.items[j].field = "status"
        /\ h.items[j].to \in {"Done", "Resolved", "Closed", "Deployed/Done", "Complete"}
C5_Timestamp(issue) ==
    LET hits == {i \in DOMAIN issue.histories : C5_HistoryResolves(issue.histories[i])} IN
    IF issue.resolved.text # "" THEN issue.resolved
    ELSE IF hits # {}
    THEN issue.histories[CHOOSE i \in hits : \A h \in hits : i <= h].created
    ELSE NoneFound
C5_Duration(issue) ==
    LET ts == C5_Timestamp(issue) IN
    IF issue.created.text \in {"iso", "naive"} /\ ts.text = issue.created.text
    THEN ts.t - issue.created.t
    ELSE 0

\* C5: every merged resolved ticket is recorded, with the duration from its
\* creation to its resolved field when present, else to the first history
\* entry with a status item into a terminal state, and with duration 0 when
\* no timestamp is found, one does not parse, or only one of the two carries a
\* UTC offset; recording raises nothing.
C5_ResolutionDerived ==
    /\ raised.step # "process"
    /\ (pc \in {"active", "transfer", "calc", "done"} /\ raised.step \notin {"new", "resolved"}
        /\ response.endpoint # "/test-dates") =>
          /\ Len(metrics.resolved_tickets) = Len(resolved_tickets)
          /\ \A i \in DOMAIN resolved_tickets :
                /\ metrics.resolved_tickets[i].key = resolved_tickets[i].key
                /\ metrics.resolved_tickets[i].resolution_days
                      = C5_Duration(resolved_tickets[i])
    /\ (pc = "done" /\ response.endpoint = "/metrics" /\ raised = NotRaised) =>
          /\ response.status = HttpOk
          /\ response.body.resolvedTicketsCount = Len(resolved_tickets)

C5_Witness ==
    /\ MetricsOk
    /\ jira = "derivation"
    /\ Len(resolved_tickets) = 1
    /\ resolved_tickets[1].resolved = Absent
    /\ Len(resolved_tickets[1].histories) = 2
    /\ ~C5_HistoryResolves(resolved_tickets[1].histories[1])
    /\ resolved_tickets[1].histories[1].created = Iso(CreatedAt + 3)
    /\ resolved_tickets[1].histories[2].created = Iso(CreatedAt + 9)
    /\ metrics.resolved_tickets[1].resolution_days = 9

RECURSIVE SumOver(_, _)
SumOver(f, S) ==
    IF S = {} THEN 0
    ELSE LET x == CHOOSE y \in S : TRUE IN f[x] + SumOver(f, S \ {x})

\* C6: averageResolutionDays (in tenths of a day) is the mean of the
\* non-negative durations rounded to a nearest tenth, and 0 when there is no
\* non-negative duration.
C6_AverageOfNonNegative ==
    MetricsOk =>
        LET I == {i \in DOMAIN Durations : Durations[i] >= 0}
            n == Cardinality(I)
            total == SumOver(Durations, I)
            a == response.body.averageResolutionDays
            err == a * TicksPerDay * n - 10 * total
        IN IF n = 0 THEN a = 0
           ELSE /\ 2 * err <= TicksPerDay * n
                /\ 2 * err >= -(TicksPerDay * n)

\* ten non-negative durations of mean 0.35 days and a negative one: the
\* average reported is 0.3
C6_Witness ==
    /\ MetricsOk
    /\ jira = "ties"
    /\ Len(Durations) = TieGroup + 1
    /\ Durations[1] = 3 * TicksPerDay + 1
    /\ Durations[TieGroup + 1] = -1
    /\ 20 * (3 * TicksPerDay + 1) = 7 * TicksPerDay * TieGroup
    /\ response.body.averageResolutionDays = 3

\* C7: the window of a /metrics request starts on the Monday 7 + weekday days
\* before today and ends on the Sunday 6 days later; it is the week before the
\* week of today, and every query of the request carries it.
C7_WeekWindow ==
    (pc # "idle" /\ response.endpoint # "/test-dates") =>
        /\ week_start = today - Days(7 + Weekday(today))
        /\ week_end = week_start + Days(6)
        /\ DateOf(week_start) % 7 = 1
        /\ DateOf(week_end) % 7 = 0
        /\ DateOf(week_end) < DateOf(today)
        /\ DateOf(today) <= DateOf(week_end) + 7
        /\ \A i \in DOMAIN queries :
              /\ queries[i].jql.from = DateOf(week_start)
              /\ queries[i].jql.to = DateOf(week_end)
        /\ MetricsOk =>
              /\ Len(queries) = 4 + Len(teams)
              /\ response.body.weekRange.from = DateOf(week_start)
              /\ response.body.weekRange.to = DateOf(week_end)

C7_Witness ==
    /\ MetricsOk
    /\ Len(queries) = 8
    /\ Weekday(today) = 6
    /\ today % TicksPerDay = 1
    /\ {queries[i].jql.project : i \in DOMAIN queries}
          = {"SE", "EIM", "ENGGMNT", "AM", "MRKT"}

\* C8: a /metrics request answers once; when an exception was raised in the
\* pipeline the answer is status 500 with success false and the message and
\* no report field, otherwise status 200 with success true.
C8_ErrorBoundary ==
    /\ pc # "done" => (response = NoResponse /\ raised = NotRaised)
    /\ (pc = "done" /\ response.endpoint = "/metrics") =>
          IF raised # NotRaised
          THEN /\ response.status = HttpError
               /\ response.body = [success |-> FALSE, error |-> raised.error,
                                   execution_method |-> "Render_Flask_API"]
          ELSE /\ response.status = HttpOk
               /\ response.body.success = TRUE
               /\ "error" \notin DOMAIN response.body
               /\ {"newTicketsCount", "resolvedTicketsCount", "speedBuckets"}
                     \subseteq DOMAIN response.body

C8_Witness ==
    /\ pc = "done"
    /\ raised = [step |-> "transfer", error |-> "ConnectionError"]
    /\ Len(metrics.new_tickets) = 3
    /\ Len(metrics.resolved_tickets) = 1
    /\ response.status = HttpError
    /\ response.body.success = FALSE

\* C9: the week window and the created-tickets query that /test-dates echoes
\* are the ones /metrics computes for the same today.
C9_TestDatesEchoesMetricsWindow ==
    (pc = "done" /\ response.endpoint = "/test-dates") =>
        LET ws == WeekStart(now)
            we == WeekEnd(ws)
        IN /\ response.body.calculated_week_start = DateOf(ws)
           /\ response.body.calculated_week_end = DateOf(we)
           /\ response.body.jql_current = new_tickets_jql(ws, we)

====
